---- MODULE Spec2Model ----
(***************************************************************************)
(* A model of the dask_cudf preprocessing notebook                         *)
(* (src/nvtabular_dask_demo/dask_cudf_example.ipynb, second notebook):     *)
(* read_parquet -> fill NA with the median -> normalize -> tag rows with a *)
(* random permutation -> set_index on the tag -> to_parquet.               *)
(*                                                                         *)
(* A dask dataframe is lazy: an assignment such as                         *)
(*     gddf_read[col] = gddf_read[col].fillna(median)                      *)
(* only appends a layer to the task graph; rows are computed when a        *)
(* compute() (or head(), set_index, to_parquet) runs the graph, partition  *)
(* by partition.  The model keeps the graph as a sequence of layers and    *)
(* evaluates it on the input partitions whenever the notebook computes.    *)
(*                                                                         *)
(* The first notebook of the file (the NVTabular workflow) is modelled by  *)
(* what it does to the file system: the cleanup of its directories, the    *)
(* generation of the toy dataset, and the writes of its outputs.           *)
(*                                                                         *)
(* Numbers are fixed point.  Column values are in thousandths (Milli);     *)
(* statistics are kept at the finer resolution 1/EpsInv = 1e-7, the size   *)
(* of the constant the notebook adds to the standard deviation.            *)
(***************************************************************************)
EXTENDS Integers, Sequences, FiniteSets, TLC

(* ----------------------------- bounds ---------------------------------- *)

\* Number of partitions of the dataset read by read_parquet.
NParts == 2

\* Reruns of _assign_rand tasks (a task is rerun when its worker fails).
MaxRetries == 1

(* ------------------------- program constants --------------------------- *)

\* 1e-7, the constant added to the standard deviation: Eps = 1 / EpsInv.
EpsInv == 10000000

\* cont_names = ['value', 'id1000']
cont_names == <<"value", "id1000">>

\* cat_names = ['name']
cat_names == <<"name">>

(* ----------------------------- arithmetic ------------------------------ *)

\* Column values are integers counting thousandths.
Milli == 10 * 100

\* Statistics at resolution Fine per value unit.
Fine == 100 * 100

Abs(a) == IF a < 0 THEN 0 - a ELSE a

Sign(a) == IF a < 0 THEN 0 - 1 ELSE 1

RECURSIVE Pow10(_)
Pow10(d) == IF d = 0 THEN 1 ELSE 10 * Pow10(d - 1)

\* floor(a * 10^d / b) for a >= 0, b > 0, by long division (no large products).
RECURSIVE DivDigits(_, _, _)
DivDigits(a, b, d) ==
    IF d = 0 THEN a \div b
    ELSE (a \div b) * Pow10(d) + DivDigits((a % b) * 10, b, d - 1)

\* a / b to d decimal digits, truncated toward zero (b > 0).
Quot(a, b, d) == Sign(a) * DivDigits(Abs(a), b, d)

\* floor(sqrt(a)) for a >= 0, by bisection on lo..hi with lo^2 <= a < (hi+1)^2.
RECURSIVE SqrtBetween(_, _, _)
SqrtBetween(a, lo, hi) ==
    IF lo = hi THEN lo
    ELSE LET mid == (lo + hi + 1) \div 2
         IN  IF mid * mid <= a THEN SqrtBetween(a, mid, hi)
             ELSE SqrtBetween(a, lo, mid - 1)

ISqrt(a) == SqrtBetween(a, 0, 46340)

(* ------------------------------- data ---------------------------------- *)

\* A cell of a nullable column.
NullCell == [null |-> TRUE, v |-> 0]

Cell(x) == [null |-> FALSE, v |-> x]

\* Partition p of the input holds p rows (partitions of unequal size).
PartLen(p) == p

Parts == 1..NParts

Offset(p) == ((p - 1) * p) \div 2

TotalRows == Offset(NParts + 1)

\* The values head() prints for 'name' after read_parquet: 32-bit hashes of
\* the strings of the file.
NameHashes ==
    <<240152049, 1785946901, 1413041722, 0 - 1573697422, 1070281201>>

\* The strings of column 'name', by number.
NameStrings == 1..Len(NameHashes)

\* strings_to_categorical=True: a string is replaced by its hash; there is
\* no dictionary of the strings of the column.
StringsToCategorical(s) == NameHashes[s]

\* Rows a parquet file of the dataset may hold: column 'value' is float64,
\* 'id1000' is int64 (both nullable), 'name' is a string.
RowKinds ==
    << [value |-> NullCell,        id1000 |-> Cell(1 * Milli), name |-> 1],
       [value |-> Cell(0),         id1000 |-> Cell(2 * Milli), name |-> 2],
       [value |-> Cell(2 * Milli), id1000 |-> NullCell,        name |-> 1],
       [value |-> Cell(1 * Milli), id1000 |-> Cell(2 * Milli), name |-> 4] >>

RowDom == {RowKinds[k] : k \in 1..Len(RowKinds)}

\* The dataset as read_parquet splits it: partition p is rows
\* Offset(p)+1 .. Offset(p)+PartLen(p) of the file.  rid is the row's
\* position in the file (its identity; no column of the program); each
\* partition task encodes the strings of its rows.
Split(rows) ==
    [p \in Parts |->
        [i \in 1..PartLen(p) |->
            [rid    |-> Offset(p) + i,
             value  |-> rows[Offset(p) + i].value,
             id1000 |-> rows[Offset(p) + i].id1000,
             name   |-> Cell(StringsToCategorical(rows[Offset(p) + i].name))]]]

\* The rows of all partitions of ds, in partition then row order.
RECURSIVE Flatten(_, _)
Flatten(ds, p) ==
    IF p > Len(ds) THEN <<>> ELSE ds[p] \o Flatten(ds, p + 1)

Column(rows, c) == [i \in 1..Len(rows) |-> rows[i][c]]

NonNull(cells) == SelectSeq(cells, LAMBDA x: ~x.null)

ContCols == {cont_names[k] : k \in 1..Len(cont_names)}

\* Datasets read_parquet may return: every continuous column has a value.
Datasets ==
    { Split(rows) : rows \in
        { r \in [1..TotalRows -> RowDom] :
            \A c \in ContCols : NonNull(Column(r, c)) # <<>> } }

\* The dataset the shuffle is followed on: the row kinds in turn.
ShuffleInput == Split([k \in 1..TotalRows |-> RowKinds[(k % Len(RowKinds)) + 1]])

\* The column order head() prints for the dataframe as read.
FrameColumns == <<"id1000", "name", "value">>

\* dtypes of the columns as read (strings_to_categorical hashes 'name').
InitMeta == [value |-> "float64", id1000 |-> "int64", name |-> "int32"]

(* ---------------------------- statistics ------------------------------- *)

\* Running count / sum / sum of squares of the non-null cells.
ZeroStat == [n |-> 0, s |-> 0, q |-> 0]

RECURSIVE Partial(_)
Partial(cells) ==
    IF cells = <<>> THEN ZeroStat
    ELSE LET h == Head(cells)
             t == Partial(Tail(cells))
         IN  IF h.null THEN t
             ELSE [n |-> t.n + 1, s |-> t.s + h.v, q |-> t.q + h.v * h.v]

\* Mutant of Combine: the counts are not added (a mean of means).
CombineLastCount(a, b) == [n |-> b.n, s |-> a.s + b.s, q |-> a.q + b.q]

\* Combining two partial results (the tree reduction of mean() and std()).
Combine(a, b) == [n |-> a.n + b.n, s |-> a.s + b.s, q |-> a.q + b.q]

\* mean = sum / count, at resolution Fine per value unit.
Mean(st) == Quot(st.s, st.n, 4)

\* Sample variance (std() defaults to ddof = 1): (q - s^2/n) / (n - 1).
VarNum(st) == st.n * st.q - st.s * st.s

VarDen(st) == st.n * (st.n - 1)

\* Decimal digits the square root can keep without leaving the integer range.
SqrtDigits(st) ==
    LET v == VarNum(st) \div VarDen(st)
    IN  IF v < 200000 THEN 2 ELSE IF v < 20000000 THEN 1 ELSE 0

\* std = sqrt(variance), at resolution Fine per value unit.
Std(st) ==
    LET k == SqrtDigits(st)
    IN  ISqrt(Quot(VarNum(st), VarDen(st), 2 * k)) * Pow10(4 - k)

\* What mean().compute() and std().compute() return for a column: NaN (the
\* null cell) when the count is too small.
MeanCell(st) == IF st.n = 0 THEN NullCell ELSE Cell(Mean(st))

StdCell(st) == IF st.n < 2 THEN NullCell ELSE Cell(Std(st))

\* The k-th smallest of a non-empty sequence of non-null cells.
KthSmallest(cells, k) ==
    LET vals == {cells[i].v : i \in 1..Len(cells)}
    IN  CHOOSE v \in vals :
          /\ Cardinality({i \in 1..Len(cells) : cells[i].v < v}) < k
          /\ Cardinality({i \in 1..Len(cells) : cells[i].v <= v}) >= k

\* quantile(0.5) with linear interpolation, nulls skipped.
Quantile50(cells) ==
    LET xs == NonNull(cells)
        n  == Len(xs)
    IN  IF n % 2 = 1 THEN KthSmallest(xs, (n + 1) \div 2)
        ELSE (KthSmallest(xs, n \div 2) + KthSmallest(xs, n \div 2 + 1)) \div 2

\* int(median): truncation toward zero.
IntCast(m) == Sign(m) * ((Abs(m) \div Milli) * Milli)

(* ------------------------- the lazy task graph ------------------------- *)

\* 1e-7 at the resolution of the statistics of a column whose values count
\* 1/unit (it vanishes when the resolution is coarser than 1e-7).
Eps(unit) == (unit * Fine) \div EpsInv

\* Mutant of NormalizeValue: the operands of the subtraction are exchanged.
NormalizeSwapped(x, mean, std, unit) == Quot(mean - x * Fine, Eps(unit) + std, 5)

\* (x - mean) / (1e-7 + std), to five decimals: the result counts 1e-5.
NormalizeValue(x, mean, std, unit) == Quot(x * Fine - mean, Eps(unit) + std, 5)

\* astype('float32'): the float64 quotient loses its last digit.
AsFloat32(v) == Sign(v) * ((Abs(v) \div 10) * 10)

FillLayer(c, m) == [op |-> "fillna", col |-> c, a |-> Cell(m), b |-> NullCell]

NormLayer(c, mean, std) == [op |-> "normalize", col |-> c, a |-> mean, b |-> std]

CastLayer(c) == [op |-> "astype", col |-> c, a |-> NullCell, b |-> NullCell]

ApplyLayer(l, row) ==
    LET x == row[l.col]
    IN  IF l.op = "fillna"
          THEN [row EXCEPT ![l.col] = IF x.null THEN l.a ELSE x]
        ELSE IF l.op = "normalize"
          THEN [row EXCEPT ![l.col] =
                  IF x.null \/ l.a.null \/ l.b.null THEN NullCell
                  ELSE Cell(NormalizeValue(x.v, l.a.v, l.b.v, Milli))]
        ELSE [row EXCEPT ![l.col] = IF x.null THEN x ELSE Cell(AsFloat32(x.v))]

RECURSIVE ApplyGraph(_, _)
ApplyGraph(g, row) ==
    IF g = <<>> THEN row ELSE ApplyGraph(Tail(g), ApplyLayer(Head(g), row))

\* One partition task: the graph g run on the rows of an input partition.
EvalPartition(g, rows) == [i \in 1..Len(rows) |-> ApplyGraph(g, rows[i])]

\* The whole dataframe a compute() of graph g sees.
EvalAll(g, ds) == [p \in Parts |-> EvalPartition(g, ds[p])]

(* --------------------------- the notebook ------------------------------ *)

VARIABLES
    data,       \* the partitions of the parquet dataset at `path`
    pc,         \* the statement the notebook is at
    i,          \* loop index of the for loops over cont_names
    graph,      \* gddf_read: the layers to run on every input partition
    meta,       \* gddf_read.dtypes
    columns,    \* gddf_read.columns: the column order of the dataframe
    median,     \* the variable `median` of the fill loop
    gdf_cont,   \* gdf_cont: the graph of gddf_read[cont_names]
    acc,        \* the running reduction of the compute() in progress
    done,       \* partitions whose task of the compute() in progress ended
    means,      \* means, by position
    stds,       \* stds, by position
    out,        \* materialised partitions of gddf_read
    tagsDiv,    \* sort_ind per partition, as run for the divisions
    divisions,  \* gddf_read_shuffled.divisions
    tags,       \* sort_ind per partition, as run for to_parquet
    prevTags,   \* output of a partition's _assign_rand task before its rerun
    retries,    \* reruns of _assign_rand tasks so far
    sent,       \* source partitions whose rows were split by division
    coll,       \* output partitions of gddf_read_shuffled, once collected
    files,      \* part.j.parquet files of path_shuffled, once written
    manifest,   \* whether _metadata of path_shuffled is written
    readback,   \* gddf_read_shuffled_2.compute()
    listing,    \* the directory path_shuffled: the files in it
    readCols,   \* gddf_read_shuffled_2.columns
    sPos,       \* scenario: rows of each partition reduced so far
    sAcc,       \* scenario: the partial result of each partition
    sStat,      \* scenario: the combined count / sum / sum of squares
    sOut,       \* scenario: the normalized rows computed so far
    run,                \* how many times the notebooks were started
    dask_workdir,       \* the directory dask_workdir
    demo_output_path,   \* the directory demo_output_path
    demo_dataset_path,  \* the file demo_dataset_path
    kernel              \* the variables of the first notebook's kernel

etlVars ==
    <<data, columns, i, graph, meta, median, gdf_cont, acc, done, means, stds, out>>

shuffleVars ==
    <<tagsDiv, divisions, tags, prevTags, retries, sent, coll, files, manifest, readback,
      listing, readCols>>

scenarioVars == <<sPos, sAcc, sStat, sOut>>

\* The variables neither the preprocessing nor the shuffle touches.
notebookVars == <<run, dask_workdir, demo_output_path, demo_dataset_path, kernel>>

auxVars == <<scenarioVars, notebookVars>>

vars == <<pc, etlVars, shuffleVars, auxVars>>

ZeroAcc == [c \in ContCols |-> ZeroStat]

NoStats == [k \in 1..Len(cont_names) |-> NullCell]

NoOutput == [p \in Parts |-> <<>>]

\* Nothing of the shuffle has run.
Pending == [done |-> FALSE, rows |-> <<>>]

Ready(rows) == [done |-> TRUE, rows |-> rows]

ShuffleIdle ==
    /\ tagsDiv = NoOutput
    /\ divisions = <<>>
    /\ tags = NoOutput
    /\ prevTags = NoOutput
    /\ retries = 0
    /\ sent = {}
    /\ coll = [j \in Parts |-> Pending]
    /\ files = [j \in Parts |-> Pending]
    /\ manifest = FALSE
    /\ readback = <<>>
    /\ readCols = {}

\* The two-partition scenario is not running.
ScenarioIdle ==
    /\ sPos = <<>>
    /\ sAcc = <<>>
    /\ sStat = ZeroStat
    /\ sOut = <<>>

\* A directory that does not exist, and one that exists and holds files fs.
NoDir == [exists |-> FALSE, files |-> {}]

Dir(fs) == [exists |-> TRUE, files |-> fs]

\* A workflow that was not constructed.
NoWorkflow == [made |-> FALSE, client |-> FALSE, ops |-> <<>>, final |-> FALSE, plan |-> <<>>]

\* A fresh kernel: none of ds, ddf, client, workflow, dataset is set.
NoKernel ==
    [ds |-> "unset", ddf |-> "unset", client |-> FALSE, workflow |-> NoWorkflow,
     dataset |-> "unset"]

\* The first notebook is not running: its paths do not exist.
NotebookIdle ==
    /\ kernel = NoKernel
    /\ run = 1
    /\ dask_workdir = NoDir
    /\ demo_output_path = NoDir
    /\ demo_dataset_path = [exists |-> FALSE, chunks |-> <<>>, closed |-> FALSE]

\* State after `gddf_read = dask_cudf.read_parquet(path, ...)`.
Init ==
    /\ data \in Datasets
    /\ pc = "fill"
    /\ i = 1
    /\ graph = <<>>
    /\ meta = InitMeta
    /\ columns = FrameColumns
    /\ median = NullCell
    /\ gdf_cont = <<>>
    /\ acc = ZeroAcc
    /\ done = {}
    /\ means = NoStats
    /\ stds = NoStats
    /\ out = NoOutput
    /\ ShuffleIdle
    /\ listing = {}
    /\ ScenarioIdle
    /\ NotebookIdle

IsIntDtype(t) == t \in {"int64", "int32"}

\* median = gddf_read[col].quantile(0.5).compute(), cast to int for an
\* integer column.
FillValue(g, ds, dtypes, col) ==
    LET m == Quantile50(Column(Flatten(EvalAll(g, ds), 1), col))
    IN  IF IsIntDtype(dtypes[col]) THEN IntCast(m) ELSE m

\* One iteration of the loop of Step #2: compute the median of the column as
\* the graph now defines it, and append the fillna layer.
FillColumn ==
    /\ pc = "fill"
    /\ LET col == cont_names[i]
           m   == FillValue(graph, data, meta, col)
       IN  /\ median' = Cell(m)
           /\ graph' = Append(graph, FillLayer(col, m))
    /\ IF i < Len(cont_names)
         THEN i' = i + 1 /\ pc' = "fill"
         ELSE i' = 1 /\ pc' = "select"
    /\ UNCHANGED <<data, columns, meta, gdf_cont, acc, done, means, stds, out, shuffleVars, auxVars>>

\* Mutant of ContView: the statistics are taken from the dataframe as read,
\* before the fillna layers.
ContViewUnfilled(g) == <<>>

\* gdf_cont = gddf_read[cont_names]: the graph as it is now.
ContView(g) == g

SelectCont ==
    /\ pc = "select"
    /\ gdf_cont' = ContView(graph)
    /\ pc' = "mean"
    /\ acc' = ZeroAcc
    /\ done' = {}
    /\ UNCHANGED <<data, columns, i, graph, meta, median, means, stds, out, shuffleVars, auxVars>>

\* Mutant of Selected: the selection keeps the column order of the frame.
SelectedFrameOrder(frame, names) ==
    SelectSeq(frame, LAMBDA c : \E k \in 1..Len(names) : names[k] = c)

\* The columns of gddf_read[names]: those of the list, in the order of the
\* list, whatever the order of the frame.
Selected(frame, names) == names

\* The partial result of one partition, merged into the running reduction.
Reduce(a, g, rows) ==
    [c \in ContCols |-> Combine(a[c], Partial(Column(EvalPartition(g, rows), c)))]

\* Mutant of ComputeComplete: the result is taken as soon as one partition
\* task has ended.
ComputeEarly(d) == d # {}

\* compute() returns when the tasks of all partitions have ended.
ComputeComplete(d) == d = Parts

\* A partition task of gdf_cont.mean().compute().
MeanChunk(p) ==
    /\ pc = "mean"
    /\ p \notin done
    /\ acc' = Reduce(acc, gdf_cont, data[p])
    /\ done' = done \cup {p}
    /\ UNCHANGED <<data, columns, pc, i, graph, meta, median, gdf_cont, means, stds, out, shuffleVars, auxVars>>

\* means = gdf_cont.mean().compute()
MeanAggregate ==
    /\ pc = "mean"
    /\ ComputeComplete(done)
    /\ means' = [k \in 1..Len(cont_names) |->
                    MeanCell(acc[Selected(columns, cont_names)[k]])]
    /\ pc' = "std"
    /\ acc' = ZeroAcc
    /\ done' = {}
    /\ UNCHANGED <<data, columns, i, graph, meta, median, gdf_cont, stds, out, shuffleVars, auxVars>>

\* A partition task of gdf_cont.std().compute().
StdChunk(p) ==
    /\ pc = "std"
    /\ p \notin done
    /\ acc' = Reduce(acc, gdf_cont, data[p])
    /\ done' = done \cup {p}
    /\ UNCHANGED <<data, columns, pc, i, graph, meta, median, gdf_cont, means, stds, out, shuffleVars, auxVars>>

\* stds = gdf_cont.std().compute()
StdAggregate ==
    /\ pc = "std"
    /\ ComputeComplete(done)
    /\ stds' = [k \in 1..Len(cont_names) |->
                   StdCell(acc[Selected(columns, cont_names)[k]])]
    /\ pc' = "norm"
    /\ i' = 1
    /\ acc' = ZeroAcc
    /\ done' = {}
    /\ UNCHANGED <<data, columns, graph, meta, median, gdf_cont, means, out, shuffleVars, auxVars>>

\* One iteration of the loop of Step #3: the two assignments to
\* gddf_read[name].
NormalizeColumn ==
    /\ pc = "norm"
    /\ LET name == cont_names[i]
       IN  /\ graph' = graph \o <<NormLayer(name, means[i], stds[i]), CastLayer(name)>>
           /\ meta' = [meta EXCEPT ![name] = "float32"]
    /\ IF i < Len(cont_names)
         THEN i' = i + 1 /\ pc' = "norm"
         ELSE i' = 1 /\ pc' = "eval"
    /\ UNCHANGED <<data, columns, median, gdf_cont, acc, done, means, stds, out, shuffleVars, auxVars>>

\* A partition task of a later compute of gddf_read (head, to_parquet).
Materialize(p) ==
    /\ pc = "eval"
    /\ p \notin done
    /\ out' = [out EXCEPT ![p] = EvalPartition(graph, data[p])]
    /\ done' = done \cup {p}
    /\ pc' = IF done' = Parts THEN "done" ELSE "eval"
    /\ UNCHANGED <<data, columns, i, graph, meta, median, gdf_cont, acc, means, stds, shuffleVars, auxVars>>

Next ==
    \/ FillColumn
    \/ SelectCont
    \/ \E p \in Parts : MeanChunk(p)
    \/ MeanAggregate
    \/ \E p \in Parts : StdChunk(p)
    \/ StdAggregate
    \/ NormalizeColumn
    \/ \E p \in Parts : Materialize(p)

Spec == Init /\ [][Next]_vars

\* The orders the columns of the parquet dataset may have.
ColumnOrders ==
    {s \in [1..Len(FrameColumns) -> DOMAIN InitMeta] :
        \A a, b \in 1..Len(FrameColumns) : s[a] = s[b] => a = b}

\* State after read_parquet of a dataset whose columns are in any order.
InitColumns ==
    /\ data \in Datasets
    /\ columns \in ColumnOrders
    /\ pc = "fill"
    /\ i = 1
    /\ graph = <<>>
    /\ meta = InitMeta
    /\ median = NullCell
    /\ gdf_cont = <<>>
    /\ acc = ZeroAcc
    /\ done = {}
    /\ means = NoStats
    /\ stds = NoStats
    /\ out = NoOutput
    /\ ShuffleIdle
    /\ listing = {}
    /\ ScenarioIdle
    /\ NotebookIdle

SpecColumns == InitColumns /\ [][Next]_vars

(* ----------------------------- the shuffle ----------------------------- *)

\* The graph of gddf_read after Step #2 has run on the first k columns.
RECURSIVE FillGraph(_, _)
FillGraph(ds, k) ==
    IF k = 0 THEN <<>>
    ELSE LET g == FillGraph(ds, k - 1)
             c == cont_names[k]
         IN  Append(g, FillLayer(c, FillValue(g, ds, InitMeta, c)))

\* The statistics of column c of graph g over dataset ds as one partition.
WholeStatOf(g, ds, c) == Partial(Column(Flatten(EvalAll(g, ds), 1), c))

\* The graph of gddf_read after Step #3 has run on the first k columns.
RECURSIVE NormGraph(_, _)
NormGraph(ds, k) ==
    LET f == FillGraph(ds, Len(cont_names))
    IN  IF k = 0 THEN f
        ELSE LET c  == cont_names[k]
                 st == WholeStatOf(f, ds, c)
             IN  NormGraph(ds, k - 1)
                   \o <<NormLayer(c, MeanCell(st), StdCell(st)), CastLayer(c)>>

\* to_parquet names the file of output partition j (counted from 1 here)
\* part.(j-1).parquet.
PartName(j) == <<"part", j - 1>>

MetadataName == <<"_metadata", 0>>

\* A file of a dataset directory: its name, the columns it declares, and
\* whether a run before this one wrote it.
File(name, cols, old) == [name |-> name, cols |-> cols, old |-> old]

\* The columns to_parquet writes: the index only with write_index=True.
WrittenColumns(dtypes, index, write_index) ==
    IF write_index THEN DOMAIN dtypes \cup {index} ELSE DOMAIN dtypes

\* The files a to_parquet of n partitions leaves when it runs to its end.
WrittenFiles(n, cols, old) ==
    {File(PartName(j), cols, old) : j \in 1..n} \cup {File(MetadataName, cols, old)}

\* What path_shuffled may hold when the notebook starts: nothing, the files
\* of an earlier run (of this or of a larger number of partitions), or the
\* first file of an earlier run that was interrupted.
EarlierListings ==
    { {},
      WrittenFiles(NParts, DOMAIN InitMeta, TRUE),
      WrittenFiles(NParts + 1, DOMAIN InitMeta, TRUE),
      {File(PartName(1), DOMAIN InitMeta, TRUE)} }

\* Mutant of Rmtree: the directory is left as it is.
RmtreeSkipped(dir) == dir

\* if os.path.isdir(dir): shutil.rmtree(dir)
Rmtree(dir) == {}

\* Creating (or overwriting) file f in a directory.
AddFile(dir, f) == {g \in dir : g.name # f.name} \cup {f}

\* State after Step #3 for the dataset ShuffleInput, at the cell that
\* defines _assign_rand.
InitShuffle ==
    /\ data = ShuffleInput
    /\ pc = "assign"
    /\ i = 1
    /\ graph = NormGraph(ShuffleInput, Len(cont_names))
    /\ meta = [value |-> "float32", id1000 |-> "float32", name |-> "int32"]
    /\ columns = FrameColumns
    /\ median = graph[Len(cont_names)].a
    /\ gdf_cont = FillGraph(ShuffleInput, Len(cont_names))
    /\ acc = ZeroAcc
    /\ done = {}
    /\ means = [k \in 1..Len(cont_names) |->
                   MeanCell(WholeStatOf(gdf_cont, ShuffleInput, cont_names[k]))]
    /\ stds = [k \in 1..Len(cont_names) |->
                   StdCell(WholeStatOf(gdf_cont, ShuffleInput, cont_names[k]))]
    /\ out = NoOutput
    /\ ShuffleIdle
    /\ listing \in EarlierListings
    /\ ScenarioIdle
    /\ NotebookIdle

\* Mutant of RandomPermutation: n independent draws from 0..n-1
\* (np.random.randint), which may repeat.
RandomDraws(n) == [1..n -> 0..(n - 1)]

\* np.random.permutation(n): any arrangement of 0..n-1.
RandomPermutation(n) ==
    {f \in [1..n -> 0..(n - 1)] : \A a, b \in 1..n : f[a] = f[b] => a = b}

\* gddf_read_new = gddf_read.map_partitions(_assign_rand): a lazy layer;
\* nothing is drawn yet.
AssignLazy ==
    /\ pc = "assign"
    /\ pc' = "set_index"
    /\ UNCHANGED <<etlVars, shuffleVars, auxVars>>

\* set_index computes its divisions: the task of partition p runs the graph
\* of gddf_read_new, _assign_rand included.
DivisionTask(p) ==
    /\ pc = "set_index"
    /\ tagsDiv[p] = <<>>
    /\ \E perm \in RandomPermutation(Len(data[p])) :
          tagsDiv' = [tagsDiv EXCEPT ![p] = perm]
    /\ UNCHANGED <<pc, etlVars, divisions, tags, prevTags, retries, sent, coll,
                   files, manifest, readback, listing, readCols, auxVars>>

AllTags(tg) == UNION {{tg[p][r] : r \in 1..Len(tg[p])} : p \in Parts}

MinOf(S) == CHOOSE x \in S : \A y \in S : x <= y

MaxOf(S) == CHOOSE x \in S : \A y \in S : y <= x

\* The divisions set_index may choose for NParts output partitions: the
\* smallest tag, approximate quantiles of the tags (any nondecreasing
\* values in between), the largest tag.
DivisionChoices(tg) ==
    {d \in [1..(NParts + 1) -> MinOf(AllTags(tg))..MaxOf(AllTags(tg))] :
        /\ d[1] = MinOf(AllTags(tg))
        /\ d[NParts + 1] = MaxOf(AllTags(tg))
        /\ \A k \in 1..NParts : d[k] <= d[k + 1]}

\* gddf_read_shuffled = dd.shuffle.set_index(gddf_read_new, 'sort_ind')
SetIndex ==
    /\ pc = "set_index"
    /\ ComputeComplete({p \in Parts : tagsDiv[p] # <<>>})
    /\ \E d \in DivisionChoices(tagsDiv) : divisions' = d
    /\ pc' = "clean"
    /\ UNCHANGED <<etlVars, tagsDiv, tags, prevTags, retries, sent, coll, files,
                   manifest, readback, listing, readCols, auxVars>>

\* if os.path.isdir(path_shuffled): shutil.rmtree(path_shuffled)
Clean ==
    /\ pc = "clean"
    /\ listing' = Rmtree(listing)
    /\ pc' = "write"
    /\ UNCHANGED <<etlVars, tagsDiv, divisions, tags, prevTags, retries, sent, coll,
                   files, manifest, readback, readCols, auxVars>>

\* to_parquet runs the graph again: the _assign_rand task of partition p.
AssignRand(p) ==
    /\ pc = "write"
    /\ tags[p] = <<>>
    /\ \E perm \in RandomPermutation(Len(data[p])) :
          tags' = [tags EXCEPT ![p] = perm]
    /\ UNCHANGED <<pc, etlVars, tagsDiv, divisions, prevTags, retries, sent,
                   coll, files, manifest, readback, listing, readCols, auxVars>>

\* The scheduler reruns the _assign_rand task of partition p on the same
\* input partition (its worker failed before the result was used).
RetryAssign(p) ==
    /\ pc = "write"
    /\ retries < MaxRetries
    /\ tags[p] # <<>>
    /\ p \notin sent
    /\ \E perm \in RandomPermutation(Len(data[p])) :
          tags' = [tags EXCEPT ![p] = perm]
    /\ prevTags' = [prevTags EXCEPT ![p] = tags[p]]
    /\ retries' = retries + 1
    /\ UNCHANGED <<pc, etlVars, tagsDiv, divisions, sent, coll, files, manifest,
                   readback, listing, readCols, auxVars>>

\* Mutant of PartitionOf: a tag equal to the last division is not brought
\* back into the last output partition.
PartitionOfUnclamped(tag, divs) ==
    Cardinality({k \in 1..Len(divs) : divs[k] <= tag})

\* The output partition of a tag: searchsorted(divisions, tag, 'right'),
\* the tags at or above the last division going to the last partition.
PartitionOf(tag, divs) ==
    IF tag >= divs[Len(divs)] THEN Len(divs) - 1
    ELSE Cardinality({k \in 1..Len(divs) : divs[k] <= tag})

\* The rows source partition p sends to output partition j.
Shard(p, j) ==
    {[rid |-> data[p][r].rid, tag |-> tags[p][r], src |-> p] :
        r \in {x \in 1..Len(data[p]) : PartitionOf(tags[p][x], divisions) = j}}

\* The task of source partition p that splits its rows by division.
ShuffleSplit(p) ==
    /\ pc = "write"
    /\ tags[p] # <<>>
    /\ p \notin sent
    /\ sent' = sent \cup {p}
    /\ UNCHANGED <<pc, etlVars, tagsDiv, divisions, tags, prevTags, retries,
                   coll, files, manifest, readback, listing, readCols, auxVars>>

\* Rows sorted by tag (rows of equal tag by position in the input).
RECURSIVE SortRows(_)
SortRows(S) ==
    IF S = {} THEN <<>>
    ELSE LET m == CHOOSE x \in S : \A y \in S :
                     x.tag < y.tag \/ (x.tag = y.tag /\ x.rid <= y.rid)
         IN  <<m>> \o SortRows(S \ {m})

\* Mutant of CollectReady: an output partition is built as soon as one
\* source partition has sent its rows.
CollectEarly(s) == s # {}

\* An output partition depends on the split task of every source partition.
CollectReady(s) == s = Parts

\* The task that builds output partition j of gddf_read_shuffled.
Collect(j) ==
    /\ pc = "write"
    /\ CollectReady(sent)
    /\ ~coll[j].done
    /\ coll' = [coll EXCEPT ![j] = Ready(SortRows(UNION {Shard(p, j) : p \in sent}))]
    /\ UNCHANGED <<pc, etlVars, tagsDiv, divisions, tags, prevTags, retries,
                   sent, files, manifest, readback, listing, readCols, auxVars>>

\* The task that writes output partition j as part.j.parquet
\* (write_index=False: the tag is not written).
WriteFile(j) ==
    /\ pc = "write"
    /\ coll[j].done
    /\ ~files[j].done
    /\ files' = [files EXCEPT ![j] =
                   Ready([r \in 1..Len(coll[j].rows) |-> coll[j].rows[r].rid])]
    /\ listing' = AddFile(listing,
                     File(PartName(j), WrittenColumns(meta, "sort_ind", FALSE), FALSE))
    /\ UNCHANGED <<pc, etlVars, tagsDiv, divisions, tags, prevTags, retries,
                   sent, coll, manifest, readback, readCols, auxVars>>

\* to_parquet ends by writing _metadata, after all the part files.
WriteMetadata ==
    /\ pc = "write"
    /\ \A j \in Parts : files[j].done
    /\ manifest' = TRUE
    /\ listing' = AddFile(listing,
                     File(MetadataName, WrittenColumns(meta, "sort_ind", FALSE), FALSE))
    /\ pc' = "read"
    /\ UNCHANGED <<etlVars, tagsDiv, divisions, tags, prevTags, retries, sent,
                   coll, files, readback, readCols, auxVars>>

\* The rows of all part files, in file order.
RECURSIVE FileRows(_, _)
FileRows(fs, j) ==
    IF j > NParts THEN <<>> ELSE fs[j].rows \o FileRows(fs, j + 1)

\* gddf_read_shuffled_2 = dask_cudf.read_parquet(path_shuffled, ...);
\* gddf_read_shuffled_2.compute()
ReadBack ==
    /\ pc = "read"
    /\ readback' = FileRows(files, 1)
    /\ readCols' = UNION {f.cols : f \in {g \in listing : g.name = MetadataName}}
    /\ pc' = "done"
    /\ UNCHANGED <<etlVars, tagsDiv, divisions, tags, prevTags, retries, sent,
                   coll, files, manifest, listing, auxVars>>

NextShuffle ==
    \/ AssignLazy
    \/ \E p \in Parts : DivisionTask(p)
    \/ SetIndex
    \/ Clean
    \/ \E p \in Parts : AssignRand(p)
    \/ \E p \in Parts : ShuffleSplit(p)
    \/ \E j \in Parts : Collect(j)
    \/ \E j \in Parts : WriteFile(j)
    \/ WriteMetadata
    \/ ReadBack

SpecShuffle == InitShuffle /\ [][NextShuffle]_vars

\* The shuffle on a cluster whose workers may fail: tasks are rerun.
NextRetry ==
    \/ NextShuffle
    \/ \E p \in Parts : RetryAssign(p)

SpecRetry == InitShuffle /\ [][NextRetry]_vars

\* to_parquet is cancelled (or its worker fails) while the task of output
\* partition j has written k of its rows: the task writes straight into
\* part.(j-1).parquet of path_shuffled, so the file is there, unfinished.
CancelWrite(j, k) ==
    /\ pc = "write"
    /\ coll[j].done
    /\ ~files[j].done
    /\ k < Len(coll[j].rows)
    /\ files' = [files EXCEPT ![j] =
                   [done |-> FALSE, rows |-> [r \in 1..k |-> coll[j].rows[r].rid]]]
    /\ listing' = AddFile(listing,
                     File(PartName(j), WrittenColumns(meta, "sort_ind", FALSE), FALSE))
    /\ pc' = "cancelled"
    /\ UNCHANGED <<etlVars, tagsDiv, divisions, tags, prevTags, retries,
                   sent, coll, manifest, readback, readCols, auxVars>>

\* The shuffle with a write that may be cancelled.
NextCancel ==
    \/ NextShuffle
    \/ \E j \in Parts : \E k \in 0..TotalRows : CancelWrite(j, k)

SpecCancel == InitShuffle /\ [][NextCancel]_vars

(* ---------------------- the two-partition scenario --------------------- *)

\* Step #3 followed row by row on the dataset of the end-to-end scenario:
\* ScenarioParts partitions of ScenarioRows rows, column x holding
\* 0, 1, 2, ... in row order (values count units, not thousandths).
ScenarioParts == 2

ScenarioRows == 100

ScenarioValue(p, r) == (p - 1) * ScenarioRows + (r - 1)

InitScenario ==
    /\ data = ShuffleInput
    /\ pc = "scan"
    /\ i = 1
    /\ graph = <<>>
    /\ meta = InitMeta
    /\ columns = FrameColumns
    /\ median = NullCell
    /\ gdf_cont = <<>>
    /\ acc = ZeroAcc
    /\ done = {}
    /\ means = NoStats
    /\ stds = NoStats
    /\ out = NoOutput
    /\ ShuffleIdle
    /\ listing = {}
    /\ sPos = [p \in 1..ScenarioParts |-> 0]
    /\ sAcc = [p \in 1..ScenarioParts |-> ZeroStat]
    /\ sStat = ZeroStat
    /\ sOut = <<>>
    /\ NotebookIdle

\* The task of partition p reduces its next row into its partial result.
ScanRow(p) ==
    /\ pc = "scan"
    /\ sPos[p] < ScenarioRows
    /\ sPos' = [sPos EXCEPT ![p] = @ + 1]
    /\ sAcc' = [sAcc EXCEPT ![p] =
                   Combine(@, Partial(<<Cell(ScenarioValue(p, sPos[p] + 1))>>))]
    /\ UNCHANGED <<pc, etlVars, shuffleVars, sStat, sOut, notebookVars>>

RECURSIVE CombineAll(_, _)
CombineAll(parts, p) ==
    IF p > Len(parts) THEN ZeroStat ELSE Combine(parts[p], CombineAll(parts, p + 1))

\* mean().compute() / std().compute(): the partial results are combined
\* once every partition is reduced.
ScenarioAggregate ==
    /\ pc = "scan"
    /\ \A p \in 1..ScenarioParts : sPos[p] = ScenarioRows
    /\ sStat' = CombineAll(sAcc, 1)
    /\ pc' = "scenario_norm"
    /\ UNCHANGED <<etlVars, shuffleVars, sPos, sAcc, sOut, notebookVars>>

\* The normalize layer and the cast run on the next row of the dataset.
ScenarioNormalize ==
    /\ pc = "scenario_norm"
    /\ Len(sOut) < ScenarioParts * ScenarioRows
    /\ sOut' = Append(sOut,
                  AsFloat32(NormalizeValue(Len(sOut), Mean(sStat), Std(sStat), 1)))
    /\ UNCHANGED <<pc, etlVars, shuffleVars, sPos, sAcc, sStat, notebookVars>>

NextScenario ==
    \/ \E p \in 1..ScenarioParts : ScanRow(p)
    \/ ScenarioAggregate
    \/ ScenarioNormalize

SpecScenario == InitScenario /\ [][NextScenario]_vars

(* -------------------- the files of the two notebooks ------------------- *)

\* How many times the notebooks are started (a start begins at the first
\* cell of the first notebook, whether the start before it ended or was
\* interrupted).
MaxRuns == 2

\* nwrites = 25
nwrites == 25

\* The shuffle variables the directory view leaves alone.
shuffleRest ==
    <<tagsDiv, divisions, tags, prevTags, retries, sent, coll, files, manifest, readback,
      readCols>>

\* The files of directory d, as a later start of the notebooks finds them.
Aged(fs) == {File(f.name, f.cols, TRUE) : f \in fs}

\* A file some process left in a directory before the notebooks ran.
Leftover == File(<<"leftover", 0>>, {}, TRUE)

\* The first start of the notebooks: the paths of the first notebook may or
\* may not exist; demo_dataset_path and path_shuffled do not.
InitNotebook ==
    /\ data = ShuffleInput
    /\ pc = "clean_workdir"
    /\ i = 1
    /\ graph = <<>>
    /\ meta = InitMeta
    /\ columns = FrameColumns
    /\ median = NullCell
    /\ gdf_cont = <<>>
    /\ acc = ZeroAcc
    /\ done = {}
    /\ means = NoStats
    /\ stds = NoStats
    /\ out = NoOutput
    /\ ShuffleIdle
    /\ listing = {}
    /\ ScenarioIdle
    /\ run = 1
    /\ kernel = NoKernel
    /\ dask_workdir \in {NoDir, Dir({Leftover})}
    /\ demo_output_path \in {NoDir, Dir({Leftover})}
    /\ demo_dataset_path = [exists |-> FALSE, chunks |-> <<>>, closed |-> FALSE]

\* Mutant of CleanDir: the directory is not emptied.
CleanDirKept(d) == d

\* if os.path.isdir(d): shutil.rmtree(d); os.mkdir(d)
CleanDir(d) == IF d.exists THEN Dir({}) ELSE d

\* Make sure we have a clean worker space for Dask
CleanWorkdir ==
    /\ pc = "clean_workdir"
    /\ dask_workdir' = CleanDir(dask_workdir)
    /\ pc' = "clean_output"
    /\ UNCHANGED <<etlVars, shuffleVars, scenarioVars, run, demo_output_path,
                   demo_dataset_path, kernel>>

\* Make sure we have a clean output path
CleanOutput ==
    /\ pc = "clean_output"
    /\ demo_output_path' = CleanDir(demo_output_path)
    /\ pc' = "generate"
    /\ UNCHANGED <<etlVars, shuffleVars, scenarioVars, run, dask_workdir,
                   demo_dataset_path, kernel>>

\* if not os.path.exists(demo_dataset_path): ... pw = ParquetWriter(...)
CheckDataset ==
    /\ pc = "generate"
    /\ pc' = IF demo_dataset_path.exists THEN "dataset" ELSE "write_table"
    /\ UNCHANGED <<etlVars, shuffleVars, scenarioVars, notebookVars>>

\* One iteration of the loop: pw.write_table(df), df generated with seed=i.
\* The file is under its final name from the first write on.
WriteTable ==
    /\ pc = "write_table"
    /\ Len(demo_dataset_path.chunks) < nwrites
    /\ demo_dataset_path' =
          [exists |-> TRUE,
           chunks |-> Append(demo_dataset_path.chunks, Len(demo_dataset_path.chunks)),
           closed |-> FALSE]
    /\ UNCHANGED <<pc, etlVars, shuffleVars, scenarioVars, run, dask_workdir,
                   demo_output_path, kernel>>

\* pw.close(), after the loop.
CloseWriter ==
    /\ pc = "write_table"
    /\ Len(demo_dataset_path.chunks) = nwrites
    /\ demo_dataset_path' = [demo_dataset_path EXCEPT !.closed = TRUE]
    /\ pc' = "dataset"
    /\ UNCHANGED <<etlVars, shuffleVars, scenarioVars, run, dask_workdir,
                   demo_output_path, kernel>>

\* ds = nvt.Dataset(demo_dataset_path, ...): the file is opened.
OpenDataset ==
    /\ pc = "dataset"
    /\ kernel' = [kernel EXCEPT !.ds = "file"]
    /\ pc' = "shuffle_id"
    /\ UNCHANGED <<etlVars, shuffleVars, scenarioVars, run, dask_workdir,
                   demo_output_path, demo_dataset_path>>

\* ddf = ds.to_ddf().shuffle("id", ignore_index=True); ds = nvt.Dataset(ddf)
ShuffleById ==
    /\ pc = "shuffle_id"
    /\ kernel' = [kernel EXCEPT !.ddf = "shuffled", !.ds = "shuffled"]
    /\ pc' = "del"
    /\ UNCHANGED <<etlVars, shuffleVars, scenarioVars, run, dask_workdir,
                   demo_output_path, demo_dataset_path>>

\* del ds; del ddf
DeleteShuffled ==
    /\ pc = "del"
    /\ kernel' = [kernel EXCEPT !.ddf = "deleted", !.ds = "deleted"]
    /\ pc' = "cluster"
    /\ UNCHANGED <<etlVars, shuffleVars, scenarioVars, run, dask_workdir,
                   demo_output_path, demo_dataset_path>>

\* cluster = LocalCUDACluster(local_directory=dask_workdir, ...): the
\* workers create the directory if need be and keep their files in it.
\* client = Client(cluster)
StartCluster ==
    /\ pc = "cluster"
    /\ dask_workdir' = Dir(AddFile(dask_workdir.files, File(<<"worker", 0>>, {}, FALSE)))
    /\ kernel' = [kernel EXCEPT !.client = TRUE]
    /\ pc' = "workflow"
    /\ UNCHANGED <<etlVars, shuffleVars, scenarioVars, run, demo_output_path,
                   demo_dataset_path>>

\* Mutant of AddPreprocess: the operator is put in front of those registered.
AddPreprocessFirst(ops, op) == <<op>> \o ops

\* workflow.add_preprocess(op): op joins the registered operators, last.
AddPreprocess(ops, op) == Append(ops, op)

\* The cell of Step 5, statement by statement.
\* workflow = nvt.Workflow(..., client=client)
NewWorkflow ==
    /\ pc = "workflow"
    /\ kernel' = [kernel EXCEPT !.workflow =
                     [made |-> TRUE, client |-> kernel.client, ops |-> <<>>,
                      final |-> FALSE, plan |-> <<>>]]
    /\ pc' = "add_normalize"
    /\ UNCHANGED <<etlVars, shuffleVars, scenarioVars, run, dask_workdir,
                   demo_output_path, demo_dataset_path>>

\* workflow.add_preprocess(ops.Normalize(columns=["x", "y"]))
AddNormalize ==
    /\ pc = "add_normalize"
    /\ kernel' = [kernel EXCEPT !.workflow.ops = AddPreprocess(@, "Normalize")]
    /\ pc' = "add_categorify"
    /\ UNCHANGED <<etlVars, shuffleVars, scenarioVars, run, dask_workdir,
                   demo_output_path, demo_dataset_path>>

\* workflow.add_preprocess(ops.Categorify(...))
AddCategorify ==
    /\ pc = "add_categorify"
    /\ kernel' = [kernel EXCEPT !.workflow.ops = AddPreprocess(@, "Categorify")]
    /\ pc' = "finalize"
    /\ UNCHANGED <<etlVars, shuffleVars, scenarioVars, run, dask_workdir,
                   demo_output_path, demo_dataset_path>>

\* workflow.finalize(): the operators registered so far become the plan.
Finalize ==
    /\ pc = "finalize"
    /\ kernel' = [kernel EXCEPT !.workflow.final = TRUE,
                                !.workflow.plan = kernel.workflow.ops]
    /\ pc' = "dataset2"
    /\ UNCHANGED <<etlVars, shuffleVars, scenarioVars, run, dask_workdir,
                   demo_output_path, demo_dataset_path>>

\* dataset = nvt.Dataset(demo_dataset_path, part_size="1.2GB")
OpenDataset2 ==
    /\ pc = "dataset2"
    /\ kernel' = [kernel EXCEPT !.dataset = "file"]
    /\ pc' = "apply"
    /\ UNCHANGED <<etlVars, shuffleVars, scenarioVars, run, dask_workdir,
                   demo_output_path, demo_dataset_path>>

\* The file of partition j (counted from 1) in subdirectory sub of
\* demo_output_path.
OutputFile(sub, j) == File(<<sub, j - 1>>, DOMAIN InitMeta, FALSE)

\* workflow.apply(dataset, output_path=.../processed, ...): a worker writes
\* its file.
ApplyWrite(j) ==
    /\ pc = "apply"
    /\ OutputFile("processed", j) \notin demo_output_path.files
    /\ demo_output_path' = Dir(AddFile(demo_output_path.files, OutputFile("processed", j)))
    /\ UNCHANGED <<pc, etlVars, shuffleVars, scenarioVars, run, dask_workdir,
                   demo_dataset_path, kernel>>

\* workflow.apply returns when every worker has written its file.
ApplyEnd ==
    /\ pc = "apply"
    /\ \A j \in Parts : OutputFile("processed", j) \in demo_output_path.files
    /\ pc' = "get_ddf"
    /\ UNCHANGED <<etlVars, shuffleVars, scenarioVars, notebookVars>>

\* ddf = workflow.get_ddf()
GetDdf ==
    /\ pc = "get_ddf"
    /\ kernel' = [kernel EXCEPT !.ddf = "processed"]
    /\ pc' = "to_parquet"
    /\ UNCHANGED <<etlVars, shuffleVars, scenarioVars, run, dask_workdir,
                   demo_output_path, demo_dataset_path>>

\* ddf.to_parquet(.../dask_output, write_index=False): the task of
\* partition j writes part.(j-1).parquet.
ToParquetWrite(j) ==
    /\ pc = "to_parquet"
    /\ OutputFile("dask_output", j) \notin demo_output_path.files
    /\ demo_output_path' = Dir(AddFile(demo_output_path.files, OutputFile("dask_output", j)))
    /\ UNCHANGED <<pc, etlVars, shuffleVars, scenarioVars, run, dask_workdir,
                   demo_dataset_path, kernel>>

\* to_parquet ends by writing dask_output/_metadata.
ToParquetEnd ==
    /\ pc = "to_parquet"
    /\ \A j \in Parts : OutputFile("dask_output", j) \in demo_output_path.files
    /\ demo_output_path' =
          Dir(AddFile(demo_output_path.files,
                      File(<<"dask_output/_metadata", 0>>, DOMAIN InitMeta, FALSE)))
    /\ pc' = "clean_shuffled"
    /\ UNCHANGED <<etlVars, shuffleVars, scenarioVars, run, dask_workdir,
                   demo_dataset_path, kernel>>

\* Second notebook: if os.path.isdir(path_shuffled): shutil.rmtree(...)
CleanShuffled ==
    /\ pc = "clean_shuffled"
    /\ listing' = Rmtree(listing)
    /\ pc' = "write_shuffled"
    /\ UNCHANGED <<etlVars, shuffleRest, scenarioVars, notebookVars>>

\* Second notebook: gddf_read_shuffled.to_parquet(path_shuffled, ...), seen
\* from the directory: the task of output partition j writes its file.
WriteShuffled(j) ==
    /\ pc = "write_shuffled"
    /\ File(PartName(j), DOMAIN InitMeta, FALSE) \notin listing
    /\ listing' = AddFile(listing, File(PartName(j), DOMAIN InitMeta, FALSE))
    /\ UNCHANGED <<pc, etlVars, shuffleRest, scenarioVars, notebookVars>>

WriteShuffledEnd ==
    /\ pc = "write_shuffled"
    /\ \A j \in Parts : File(PartName(j), DOMAIN InitMeta, FALSE) \in listing
    /\ listing' = AddFile(listing, File(MetadataName, DOMAIN InitMeta, FALSE))
    /\ pc' = "end"
    /\ UNCHANGED <<etlVars, shuffleRest, scenarioVars, notebookVars>>

\* The notebooks are started again from the first cell, after the end of
\* the second or after the kernel was interrupted anywhere: the variables of
\* the kernel are gone, the files stay as they are.
Restart ==
    /\ run < MaxRuns
    /\ run' = run + 1
    /\ pc' = "clean_workdir"
    /\ dask_workdir' = [dask_workdir EXCEPT !.files = Aged(@)]
    /\ demo_output_path' = [demo_output_path EXCEPT !.files = Aged(@)]
    /\ listing' = Aged(listing)
    /\ kernel' = NoKernel
    /\ UNCHANGED <<etlVars, shuffleRest, scenarioVars, demo_dataset_path>>

NextNotebook ==
    \/ CleanWorkdir
    \/ CleanOutput
    \/ CheckDataset
    \/ WriteTable
    \/ CloseWriter
    \/ OpenDataset
    \/ ShuffleById
    \/ DeleteShuffled
    \/ StartCluster
    \/ NewWorkflow
    \/ AddNormalize
    \/ AddCategorify
    \/ Finalize
    \/ OpenDataset2
    \/ \E j \in Parts : ApplyWrite(j)
    \/ ApplyEnd
    \/ GetDdf
    \/ \E j \in Parts : ToParquetWrite(j)
    \/ ToParquetEnd
    \/ CleanShuffled
    \/ \E j \in Parts : WriteShuffled(j)
    \/ WriteShuffledEnd
    \/ Restart

SpecNotebook == InitNotebook /\ [][NextNotebook]_vars

(* ------------------------------ claims --------------------------------- *)

\* Column c of the dataset as read, held as one partition.
RawColumn(c) == Column(Flatten(data, 1), c)

\* The statistics of column c of graph g over the dataset held as one
\* partition.
WholeStat(g, c) == Partial(Column(Flatten(EvalAll(g, data), 1), c))

\* The rows of the partitions in S, in partition order.
RECURSIVE RowsOf(_, _)
RowsOf(S, p) ==
    IF p > NParts THEN <<>>
    ELSE (IF p \in S THEN data[p] ELSE <<>>) \o RowsOf(S, p + 1)

ColumnOf(name) == CHOOSE k \in 1..Len(cont_names) : cont_names[k] = name

LayersOf(kind) == {j \in 1..Len(graph) : graph[j].op = kind}

\* C1: statistics barrier.  Every normalize layer of the graph carries the
\* mean and the std of its column over ALL partitions of the dataset, and no
\* partition is materialised before those statistics are in the graph: no row
\* is normalized with a statistic computed from a part of the dataset.
C1_StatisticsBarrier ==
    /\ \A j \in LayersOf("normalize") :
          /\ graph[j].a = MeanCell(WholeStat(gdf_cont, graph[j].col))
          /\ graph[j].b = StdCell(WholeStat(gdf_cont, graph[j].col))
    /\ \A p \in Parts : out[p] # <<>> =>
          /\ pc \in {"eval", "done"}
          /\ \A c \in ContCols : \E j \in LayersOf("normalize") : graph[j].col = c

\* C1 witness: every partition has been normalized, with defined statistics.
C1_Witness ==
    /\ pc = "done"
    /\ \A p \in Parts : out[p] # <<>>
    /\ \A k \in 1..Len(cont_names) : ~means[k].null /\ ~stds[k].null

\* The fill value the notebook derives from the column as read.
RawFill(c) ==
    LET m == Quantile50(RawColumn(c))
    IN  IF IsIntDtype(InitMeta[c]) THEN IntCast(m) ELSE m

\* Column c as read, with its nulls replaced by the fill value.
FilledColumn(c) ==
    [k \in 1..TotalRows |->
        IF RawColumn(c)[k].null THEN Cell(RawFill(c)) ELSE RawColumn(c)[k]]

\* C2: fill-then-normalize.  The fill value of a column is the median of the
\* column as read (not of normalized data), every fillna layer precedes every
\* normalize layer, and the mean and std of a normalize layer are those of
\* the filled column, which holds no null.
C2_FillThenNormalize ==
    /\ \A j \in LayersOf("fillna") :
          /\ graph[j].a = Cell(RawFill(graph[j].col))
          /\ \A h \in 1..j : graph[h].op = "fillna"
    /\ \A j \in LayersOf("normalize") :
          LET st == Partial(FilledColumn(graph[j].col))
          IN  /\ \E h \in 1..j : graph[h].op = "fillna" /\ graph[h].col = graph[j].col
              /\ st.n = TotalRows
              /\ graph[j].a = MeanCell(st)
              /\ graph[j].b = StdCell(st)

\* C2 witness: a null of the input was filled and then normalized.
C2_Witness ==
    /\ pc = "done"
    /\ \E p \in Parts : \E r \in 1..Len(data[p]) :
          data[p][r].value.null /\ ~out[p][r].value.null

\* r (counting 1e-5) is num / den to two decimals: |r - num / den| < 0.01.
IsQuotient(r, num, den) ==
    LET m == Abs(r) \div 1000
    IN  /\ m * den <= Abs(num) * 100
        /\ Abs(num) * 100 < (m + 1) * den
        /\ (r # 0 => Sign(r) = Sign(num))

\* C7: normalize is (x - mean) / (std + 1e-7) per row (to two decimals), with
\* the global mean and std of the same column; it touches exactly the columns of cont_names
\* and keeps the other columns, the row count and the row order.
C7_NormalizeFunction ==
    \A p \in Parts : out[p] # <<>> =>
        /\ Len(out[p]) = Len(data[p])
        /\ \A r \in 1..Len(data[p]) :
              /\ out[p][r].rid = data[p][r].rid
              /\ out[p][r].name = data[p][r].name
              /\ \A c \in ContCols :
                    LET x  == FilledColumn(c)[data[p][r].rid].v
                        st == Partial(FilledColumn(c))
                    IN  /\ ~out[p][r][c].null
                        /\ IsQuotient(out[p][r][c].v,
                                      x * Fine - Mean(st),
                                      Std(st) + (Milli * Fine) \div EpsInv)

\* C7 witness: a partition was normalized and holds a value below and a value
\* above the mean.
C7_Witness ==
    /\ \E p \in Parts : \E r \in 1..Len(out[p]) : out[p][r].value.v < 0
    /\ \E p \in Parts : \E r \in 1..Len(out[p]) : out[p][r].value.v > 0

C10_FillIsMedian ==
    \A j \in LayersOf("fillna") :
        graph[j].a = Cell(Quantile50(RawColumn(graph[j].col)))

\* C3 (as claimed): the tag of a row is drawn once; the run of the graph
\* that computes the divisions and the run that writes the files see the
\* same sort_ind for the same row.
C3_TagsFixed ==
    \A p \in Parts :
        (tagsDiv[p] # <<>> /\ tags[p] # <<>>) => tags[p] = tagsDiv[p]

\* How many rows of the part files written so far carry row identity k.
Copies(k) ==
    Cardinality({x \in {<<j, r>> : j \in Parts, r \in 1..TotalRows} :
                    /\ x[2] <= Len(files[x[1]].rows)
                    /\ files[x[1]].rows[x[2]] = k})

\* C4: the shuffle loses and duplicates no row.  No row is ever in the part
\* files twice, and once to_parquet has ended every row of the input is in
\* exactly one part file; reading the files back gives each row once.
C4_ShuffleKeepsRows ==
    /\ \A k \in 1..TotalRows : Copies(k) <= 1
    /\ manifest => \A k \in 1..TotalRows : Copies(k) = 1
    /\ pc = "done" =>
          /\ Len(readback) = TotalRows
          /\ \A k \in 1..TotalRows : \E r \in 1..Len(readback) : readback[r] = k

\* C4 witness: the shuffled dataset was written and read back, and a part
\* file holds rows of two different input partitions.
C4_Witness ==
    /\ pc = "done"
    /\ \E j \in Parts : \E a, b \in 1..Len(coll[j].rows) :
          coll[j].rows[a].src # coll[j].rows[b].src

\* C5 (as claimed): a per-partition task run a second time on the same input
\* partition gives the output of its first run.
C5_RerunSameOutput ==
    \A p \in Parts : prevTags[p] # <<>> => tags[p] = prevTags[p]

\* C6: shuffle barrier.  An output partition is built, and its file written,
\* only after every source partition has split its rows, and it then holds
\* every row any source partition sends to it.
C6_ShuffleBarrier ==
    \A j \in Parts :
        (coll[j].done \/ files[j].done) =>
            /\ sent = Parts
            /\ \A p \in Parts : \A r \in 1..Len(data[p]) :
                  (tags[p] # <<>> /\ PartitionOf(tags[p][r], divisions) = j) =>
                      \E a \in 1..Len(coll[j].rows) :
                          coll[j].rows[a].rid = data[p][r].rid
            /\ files[j].done =>
                  /\ coll[j].done
                  /\ Len(files[j].rows) = Len(coll[j].rows)

\* C6 witness: a file was written that holds rows of two source partitions
\* while another output partition was not yet built.
C6_Witness ==
    \E j, h \in Parts :
        /\ files[j].done
        /\ ~coll[h].done
        /\ \E a, b \in 1..Len(coll[j].rows) :
              coll[j].rows[a].src # coll[j].rows[b].src

\* C8 (as claimed): in the scenario of 2 partitions of 100 rows holding
\* 0..199, mean = 99.5, std is 57.73 to two decimals (the variance divided by
\* the row count) and row 0 of the output is within 1e-3 of -1.723.
C8_ScenarioValues ==
    pc = "scenario_norm" =>
        /\ Mean(sStat) = 995000
        /\ Abs(Std(sStat) - 577300) <= 100
        /\ Len(sOut) >= 1 => Abs(sOut[1] + 172300) <= 100

\* C11 (as claimed): once an integer column whose median is not a whole
\* number has been filled, and until it is normalized, the column is a float
\* column.
C11_FillPromotesToFloat ==
    \A j \in LayersOf("fillna") :
        LET c == graph[j].col
        IN  ( /\ IsIntDtype(InitMeta[c])
              /\ Quantile50(RawColumn(c)) % Milli # 0
              /\ pc \in {"fill", "select", "mean", "std"} )
            => ~IsIntDtype(meta[c])

\* C12 (as claimed): on the read_parquet path the codes of a categorical
\* column are dense integers of one dictionary: distinct strings have
\* distinct codes, the same in every partition, and the K codes in use are
\* 0..K-1 (or 1..K).
C12_DenseGlobalCodes ==
    LET codes == UNION {{data[p][r].name.v : r \in 1..Len(data[p])} : p \in Parts}
        K     == Cardinality(codes)
    IN  /\ \A a, b \in NameStrings :
              (StringsToCategorical(a) = StringsToCategorical(b)) <=> a = b
        /\ codes = 0..(K - 1) \/ codes = 1..K

C18_CleanDirectoriesExist ==
    pc = "generate" => dask_workdir = Dir({}) /\ demo_output_path = Dir({})

\* C20 (as claimed): whenever nvt.Dataset opens demo_dataset_path, the file
\* holds the nwrites chunks of seeds 0 .. nwrites-1 and its writer was closed.
C20_DatasetComplete ==
    pc \in {"dataset", "dataset2"} =>
        /\ demo_dataset_path.exists
        /\ demo_dataset_path.closed
        /\ demo_dataset_path.chunks = [k \in 1..nwrites |-> k - 1]

\* C17 (as claimed): a part file written by this run is in path_shuffled
\* under its final name only if it was written completely, also when the
\* write was cancelled.
C17_NoPartialFile ==
    \A j \in Parts :
        (\E f \in listing : f.name = PartName(j) /\ ~f.old) =>
            /\ files[j].done
            /\ Len(files[j].rows) = Len(coll[j].rows)

TagsIn(j) == {coll[j].rows[a].tag : a \in 1..Len(coll[j].rows)}

\* C21: shuffle tag structure.  Every run of _assign_rand gives the n rows of
\* a partition the tags 0..n-1, each once (so tag 0 is in every partition);
\* the output partitions of set_index are ordered by tag, and no tag is in
\* two output partitions.
C21_TagStructure ==
    /\ \A p \in Parts : \A tg \in {tagsDiv, tags} :
          tg[p] # <<>> =>
              /\ Len(tg[p]) = Len(data[p])
              /\ {tg[p][r] : r \in 1..Len(tg[p])} = 0..(Len(data[p]) - 1)
    /\ \A j, h \in Parts :
          (j < h /\ coll[j].done /\ coll[h].done) =>
              /\ \A a \in TagsIn(j) : \A b \in TagsIn(h) : a <= b
              /\ TagsIn(j) \cap TagsIn(h) = {}

\* C21 witness: two output partitions are built, both hold rows, and one of
\* them holds two rows of the same tag that come from different input
\* partitions.
C21_Witness ==
    \E j, h \in Parts :
        /\ j < h /\ coll[j].done /\ coll[h].done
        /\ TagsIn(j) # {} /\ TagsIn(h) # {}
        /\ \E g \in {j, h} : \E a, b \in 1..Len(coll[g].rows) :
              /\ coll[g].rows[a].tag = coll[g].rows[b].tag
              /\ coll[g].rows[a].src # coll[g].rows[b].src


\* C22: in the NVTabular notebook the client exists before the Workflow is
\* constructed with it, Normalize is registered before Categorify, finalize
\* comes after both registrations and before apply, and apply runs on a
\* Dataset created after the shuffled Dataset (ds, ddf) was deleted: the
\* applied dataset is the unshuffled one read from demo_dataset_path.
C22_WorkflowStepOrder ==
    /\ kernel.workflow.made => (kernel.client /\ kernel.workflow.client)
    /\ kernel.workflow.final =>
          /\ kernel.workflow.plan = <<"Normalize", "Categorify">>
          /\ kernel.workflow.ops = kernel.workflow.plan
    /\ kernel.dataset # "unset" => kernel.workflow.final
    /\ pc = "apply" =>
          /\ kernel.workflow.final
          /\ kernel.dataset = "file"
          /\ kernel.ds = "deleted"
          /\ kernel.ddf = "deleted"

\* apply has written a file of the processed directory, in a rerun of the
\* notebook, after the shuffled Dataset was made and deleted in that run.
C22_Witness ==
    /\ pc = "apply"
    /\ run = MaxRuns
    /\ kernel.workflow.plan = <<"Normalize", "Categorify">>
    /\ kernel.dataset = "file"
    /\ kernel.ds = "deleted"
    /\ \E f \in demo_output_path.files : f.name[1] = "processed" /\ ~f.old

====
